---- MODULE Spec2Model ----
(***************************************************************************)
(* Model of websocket-test-server.py: the connection handler               *)
(* (handle_client), the shared registry (connected_clients) and counter    *)
(* (message_count), the acknowledgment path and the server lifecycle.      *)
(*                                                                         *)
(* The server is an asyncio program: one task per connection, scheduled    *)
(* cooperatively.  A task only yields at an await, so each action below is *)
(* the code that runs between two suspension points of handle_client.      *)
(***************************************************************************)
EXTENDS Integers, Sequences, FiniteSets, TLC

\* ---------------------------------------------------------------- bounds
MaxConns == 2
MaxMsgs == 2

Conns == 1..MaxConns

\* ------------------------------------------------------------- payloads
\* A decoded JSON value, as far as handle_client looks at it:
\*   t    the Python type json.loads produced ("obj" is a dict)
\*   has  the words w for which the Python test `w in value` is true
\*        (keys of a dict, elements of a list, substrings of a str)
NoValue == [t |-> "null", has |-> {}, latitude |-> 0, longitude |-> 0, altitude |-> 0]

Scalar(t) == [t |-> t, has |-> {}, op |-> "", topic |-> "", msg |-> NoValue]

Obj(has, op, topic, msg) == [t |-> "obj", has |-> has, op |-> op, topic |-> topic, msg |-> msg]

MsgObj(has, lat, lon, alt) ==
    [t |-> "obj", has |-> has, latitude |-> lat, longitude |-> lon, altitude |-> alt]

\* A "msg" value that is no key-value object: a str or a list has the words
\* it contains, a number or null has none.
MsgOther(t, has) == [t |-> t, has |-> has, latitude |-> 0, longitude |-> 0, altitude |-> 0]

\* A frame as delivered by the websocket: text (str) or binary (bytes).
\*   utf8   a binary frame's bytes decode as UTF-8 (always TRUE for text)
\*   valid  the text is a JSON document; data is then its value
\*   len    len(message)
Frame(frame, utf8, valid, len, data) ==
    [frame |-> frame, utf8 |-> utf8, valid |-> valid, len |-> len, data |-> data]

Text(data) == Frame("text", TRUE, TRUE, 40, data)

Telemetry == Obj({"op", "topic", "msg"}, "publish", "/gps",
                 MsgObj({"latitude", "longitude"}, 123, 456, 0))

\* The frames the clients send.
Messages ==
    { Frame("text", TRUE, FALSE, 11, Scalar("null")),       \* hello world
      Frame("text", TRUE, FALSE, 250, Scalar("null")),      \* long text, not JSON
      Frame("bytes", TRUE, FALSE, 11, Scalar("null")),      \* b"hello world"
      Text(Scalar("num")),                                  \* 5
      Text(Obj({"op"}, "publish", "", NoValue)),            \* {"op": "publish"}
      Text(Telemetry) }

\* ------------------------------------------------- message classification
\* json.loads(message).  A binary frame is first decoded as UTF-8, which
\* raises UnicodeDecodeError (a ValueError, not a JSONDecodeError).
json_loads(message) ==
    IF message.frame = "bytes" /\ ~message.utf8
    THEN [exc |-> "UnicodeDecodeError", data |-> Scalar("null")]
    ELSE IF ~message.valid
         THEN [exc |-> "JSONDecodeError", data |-> Scalar("null")]
         ELSE [exc |-> "none", data |-> message.data]

\* The Python test `w in v`: a TypeError for None and numbers, otherwise
\* key, element or substring membership.
In(w, v) ==
    IF v.t \in {"null", "num"} THEN "TypeError"
    ELSE IF w \in v.has THEN "True" ELSE "False"

NoExtraction(exc) ==
    [exc |-> exc, extracted |-> FALSE, topic |-> "", latitude |-> 0,
     longitude |-> 0, has_altitude |-> FALSE, altitude |-> 0]

\* "Look for specific GPS data if it matches the expected format".
\* v['key'] raises TypeError unless v is a dict.
ExtractGPS(data) ==
    IF In("op", data) = "TypeError" THEN NoExtraction("TypeError")
    ELSE IF In("op", data) = "False" THEN NoExtraction("none")
    ELSE IF data.t # "obj" THEN NoExtraction("TypeError")
    ELSE IF data.op # "publish" \/ "msg" \notin data.has THEN NoExtraction("none")
    ELSE LET msg == data.msg IN
         IF In("latitude", msg) = "TypeError" THEN NoExtraction("TypeError")
         ELSE IF In("latitude", msg) = "False" \/ In("longitude", msg) = "False"
              THEN NoExtraction("none")
         ELSE LET topic == IF "topic" \in data.has THEN data.topic ELSE "N/A" IN
              IF msg.t # "obj"
              THEN [NoExtraction("TypeError") EXCEPT !.extracted = TRUE, !.topic = topic]
              ELSE [exc |-> "none", extracted |-> TRUE, topic |-> topic,
                    latitude |-> msg.latitude, longitude |-> msg.longitude,
                    has_altitude |-> "altitude" \in msg.has,
                    altitude |-> IF "altitude" \in msg.has THEN msg.altitude ELSE 0]

\* print(message[:200] + ('...' if len(message) > 200 else '')): bytes + str
\* raises TypeError.
RawText(message) ==
    IF message.frame = "bytes"
    THEN [exc |-> "TypeError", shown |-> 0, ellipsis |-> FALSE]
    ELSE [exc |-> "none",
          shown |-> IF message.len > 200 THEN 200 ELSE message.len,
          ellipsis |-> message.len > 200]

\* The body of one loop iteration up to the acknowledgment: the inner
\* try/except.  cls is the header that was printed ("json": structured,
\* "raw": "(raw text)", "none": nothing); exc is the exception that leaves
\* the inner try statement, "none" if the iteration goes on.
Classify(message) ==
    LET parsed == json_loads(message) IN
    IF parsed.exc = "UnicodeDecodeError"
    THEN [cls |-> "none", shown |-> 0, ellipsis |-> FALSE,
          gps |-> NoExtraction("UnicodeDecodeError"), exc |-> "UnicodeDecodeError"]
    ELSE IF parsed.exc = "JSONDecodeError"
         THEN LET raw == RawText(message) IN
              [cls |-> "raw", shown |-> raw.shown, ellipsis |-> raw.ellipsis,
               gps |-> NoExtraction("none"), exc |-> raw.exc]
         ELSE LET gps == ExtractGPS(parsed.data) IN
              [cls |-> "json", shown |-> 0, ellipsis |-> FALSE,
               gps |-> gps, exc |-> gps.exc]

\* ------------------------------------------------------------------ state
VARIABLES
    connected_clients,  \* the global set of open connections
    message_count,      \* the global message counter
    respond,            \* args.respond
    accepting,          \* the server of main() is listening
    hstate,             \* per connection: where its handle_client task is
    client_id,          \* per connection: n of its label "Client-n"
    inbox,              \* per connection: frames arrived, not yet iterated
    arrived,            \* the number of frames that have arrived so far
    peer,               \* per connection: the state of the connection itself
    response,           \* per handler: the response dict built for the ack
    cur,                \* per handler: the receipt number of its iteration
    last,               \* the loop iteration the latest step ran, if it ran one
    received,           \* log: the number given to each message, in order of receipt
    sent,               \* log: the websocket.send calls that finished
    exitlog             \* per handler: how it left the loop, what it printed

vars == <<connected_clients, message_count, respond, accepting, hstate,
          client_id, inbox, arrived, peer, response, cur, last, received, sent,
          exitlog>>

\* hstate: "idle"    not accepted yet
\*         "reading" suspended in `async for message in websocket`
\*         "sending" suspended in `await websocket.send(...)`
\*         "closed"  handle_client has returned
Running == {c \in Conns : hstate[c] \in {"reading", "sending"}}

Open == [open |-> TRUE, by |-> "none", code |-> 0, reason |-> ""]

\* What a client can close with: a normal closure or an application code.
Closes ==
    { [code |-> 1000, reason |-> "done"],
      [code |-> 4000, reason |-> "fault"] }

GoingAway == [code |-> 1001, reason |-> ""]

\* ConnectionClosedOK rather than ConnectionClosedError.
ClosedOK(code) == code \in {1000, 1001}

NoResponse == [status |-> "", message_id |-> 0]

NoLast ==
    [k |-> 0, conn |-> 0, arrival |-> 0, before |-> 0, id |-> 0,
     message |-> Frame("text", TRUE, FALSE, 0, Scalar("null")),
     out |-> Classify(Frame("text", TRUE, FALSE, 0, Scalar("null")))]

\* exitlog: path    "stream_end" (the loop ended), "conn_closed" (except
\*                  ConnectionClosed), "error" (except Exception)
\*          at      the statement the exception came from: "read", "send"
\*                  or "message" (the handling of a message)
\*          exc     the exception caught
\*          code, reason   the close code and reason printed, if any
NoExit == [path |-> "none", at |-> "", exc |-> "", code |-> 0, reason |-> ""]

ExitLog(path, at, exc, code, reason) ==
    [path |-> path, at |-> at, exc |-> exc, code |-> code, reason |-> reason]

Init ==
    /\ connected_clients = {}
    /\ message_count = 0
    /\ respond \in BOOLEAN
    /\ accepting = TRUE
    /\ hstate = [c \in Conns |-> "idle"]
    /\ client_id = [c \in Conns |-> 0]
    /\ inbox = [c \in Conns |-> <<>>]
    /\ arrived = 0
    /\ peer = [c \in Conns |-> Open]
    /\ response = [c \in Conns |-> NoResponse]
    /\ cur = [c \in Conns |-> 0]
    /\ last = NoLast
    /\ received = <<>>
    /\ sent = <<>>
    /\ exitlog = [c \in Conns |-> NoExit]

\* ------------------------------------------------------- registry, counter
\* Variant: the label is the registry size itself.
ClientIdOffByOne(clients) == Cardinality(clients)

\* client_id = f"Client-{len(connected_clients) + 1}": the n of the label.
ClientId(clients) == Cardinality(clients) + 1

\* Variant: the connection is never added.
RegisterSkip(clients, c) == clients

\* connected_clients.add(websocket)
Register(clients, c) == clients \cup {c}

\* Variant: no finally clause, the connection is never removed.
UnregisterSkip(clients, c) == clients

\* Variant: connected_clients.clear() in place of remove.
UnregisterAll(clients, c) == {}

\* Variant: connected_clients.pop() in place of remove: some connection
\* leaves the set, not necessarily the handler's own.
UnregisterPop(clients, c) ==
    IF clients = {} THEN clients
    ELSE clients \ {CHOOSE x \in clients : \A y \in clients : x >= y}

\* connected_clients.remove(websocket)
Unregister(clients, c) == clients \ {c}

\* Variant: the update of the counter is lost.
NextCountLost(count) == count

\* message_count += 1
NextCount(count) == count + 1

\* response = {"status": "received", "message_id": message_count, ...}
BuildResponse(count) == [status |-> "received", message_id |-> count]

\* Variant: the response is built from the global counter when the send
\* goes out, after the suspension.
SendPayloadLate(c) == BuildResponse(message_count)

\* The argument of websocket.send: json.dumps(response) is evaluated before
\* the await, from the handler's local dict.
SendPayload(c) == response[c]

\* Variant: the acknowledgment is sent whatever the flag.
RespondsAlways(flag) == TRUE

\* if args.respond:
Responds(flag) == flag

\* Variant: the accept loop awaits each handler, so it accepts only while
\* no handler runs.
ListenerSerial == accepting /\ \A c \in Conns : hstate[c] \notin {"reading", "sending"}

\* The server of websockets.serve accepts in a task of its own and starts
\* each handler as a further task: it accepts as long as it is listening.
ListenerReady == accepting

\* Variant: the newest queued frame is delivered first.
NextFrameNewest(queue) == queue[Len(queue)]

\* `async for message in websocket` delivers the frame queued longest.
NextFrame(queue) == Head(queue)

\* The queue once frame a has been delivered.
Remaining(queue, a) == SelectSeq(queue, LAMBDA x : x # a)

\* ---------------------------------------------------------------- actions
\* The library starts handle_client for a new connection; the task runs to
\* its first await, the `async for`.  Connection objects are fresh, so they
\* are taken in order.
Connect(c) ==
    /\ ListenerReady
    /\ hstate[c] = "idle"
    /\ \A d \in Conns : d < c => hstate[d] # "idle"
    /\ client_id' = [client_id EXCEPT ![c] = ClientId(connected_clients)]
    /\ connected_clients' = Register(connected_clients, c)
    /\ hstate' = [hstate EXCEPT ![c] = "reading"]
    /\ last' = NoLast
    /\ UNCHANGED <<message_count, respond, accepting, inbox, arrived, peer,
                   response, cur, received, sent, exitlog>>

\* The client of a finished connection connects again: a new connection
\* object, a new handle_client task.  The finished connection is garbage,
\* the new one takes its place in the model.
Reconnect(c) ==
    /\ ListenerReady
    /\ hstate[c] = "closed"
    /\ client_id' = [client_id EXCEPT ![c] = ClientId(connected_clients)]
    /\ connected_clients' = Register(connected_clients, c)
    /\ hstate' = [hstate EXCEPT ![c] = "reading"]
    /\ peer' = [peer EXCEPT ![c] = Open]
    /\ exitlog' = [exitlog EXCEPT ![c] = NoExit]
    /\ last' = NoLast
    /\ UNCHANGED <<message_count, respond, accepting, inbox, arrived,
                   response, cur, received, sent>>

\* A frame of a client arrives on its open connection.  The library queues
\* it without looking at it: the queue holds arrival numbers, the content
\* is drawn when the iterator delivers the frame.
ClientSend(c) ==
    /\ c \in Running
    /\ peer[c].open
    /\ arrived < MaxMsgs
    /\ arrived' = arrived + 1
    /\ inbox' = [inbox EXCEPT ![c] = Append(@, arrived')]
    /\ last' = NoLast
    /\ UNCHANGED <<connected_clients, message_count, respond, accepting, hstate,
                   client_id, peer, response, cur, received, sent, exitlog>>

\* A client closes its connection, or drops it.
ClientClose(c, cl) ==
    /\ c \in Running
    /\ peer[c].open
    /\ peer' = [peer EXCEPT ![c] = [open |-> FALSE, by |-> "client",
                                    code |-> cl.code, reason |-> cl.reason]]
    /\ last' = NoLast
    /\ UNCHANGED <<connected_clients, message_count, respond, accepting, hstate,
                   client_id, inbox, arrived, response, cur, received, sent,
                   exitlog>>

\* The except clauses and the finally clause: the handler prints what it
\* caught, removes its connection and returns.  Nothing here awaits.  The
\* handler's locals and the frames still queued die with it.
Exit(c, log) ==
    /\ connected_clients' = Unregister(connected_clients, c)
    /\ hstate' = [hstate EXCEPT ![c] = "closed"]
    /\ exitlog' = [exitlog EXCEPT ![c] = log]
    /\ inbox' = [inbox EXCEPT ![c] = <<>>]
    /\ response' = [response EXCEPT ![c] = NoResponse]
    /\ cur' = [cur EXCEPT ![c] = 0]
    /\ client_id' = [client_id EXCEPT ![c] = 0]

\* One iteration of the loop, from the delivery of a message to the next
\* await: count, classify, display, build the acknowledgment.
Receive(c, message) ==
    /\ hstate[c] = "reading"
    /\ inbox[c] # <<>>
    /\ LET out == Classify(message)
       IN /\ message_count' = NextCount(message_count)
          /\ received' = Append(received, message_count')
          /\ last' = [k |-> Len(received) + 1, conn |-> c,
                      arrival |-> NextFrame(inbox[c]),
                      before |-> message_count, id |-> message_count',
                      message |-> message, out |-> out]
          /\ IF out.exc # "none"
             THEN Exit(c, ExitLog("error", "message", out.exc, 0, ""))
             ELSE /\ inbox' = [inbox EXCEPT ![c] = Remaining(@, NextFrame(@))]
                  /\ cur' = [cur EXCEPT ![c] = Len(received) + 1]
                  /\ UNCHANGED <<connected_clients, exitlog, client_id>>
                  /\ IF Responds(respond)
                     THEN /\ response' = [response EXCEPT ![c] =
                                            BuildResponse(message_count')]
                          /\ hstate' = [hstate EXCEPT ![c] = "sending"]
                     ELSE UNCHANGED <<response, hstate>>
    /\ UNCHANGED <<respond, accepting, arrived, peer, sent>>

\* websocket.send returns: the acknowledgment went out on this connection.
SendOk(c) ==
    /\ hstate[c] = "sending"
    /\ peer[c].open
    /\ sent' = Append(sent, [conn |-> c, message_id |-> SendPayload(c).message_id,
                             k |-> cur[c], ok |-> TRUE])
    /\ hstate' = [hstate EXCEPT ![c] = "reading"]
    /\ last' = NoLast
    /\ UNCHANGED <<connected_clients, message_count, respond, accepting,
                   client_id, inbox, arrived, peer, response, cur, received,
                   exitlog>>

\* websocket.send raises ConnectionClosed: caught outside the loop.
SendFail(c) ==
    /\ hstate[c] = "sending"
    /\ ~peer[c].open
    /\ sent' = Append(sent, [conn |-> c, message_id |-> SendPayload(c).message_id,
                             k |-> cur[c], ok |-> FALSE])
    /\ Exit(c, ExitLog("conn_closed", "send", "ConnectionClosed",
                       peer[c].code, peer[c].reason))
    /\ last' = NoLast
    /\ UNCHANGED <<message_count, respond, accepting, arrived, peer,
                   received>>

\* The iterator stops on ConnectionClosedOK: the loop ends without an
\* exception, no except clause runs, only the finally clause.
StreamEnd(c) ==
    /\ hstate[c] = "reading"
    /\ inbox[c] = <<>>
    /\ ~peer[c].open
    /\ ClosedOK(peer[c].code)
    /\ Exit(c, ExitLog("stream_end", "read", "", 0, ""))
    /\ last' = NoLast
    /\ UNCHANGED <<message_count, respond, accepting, arrived, peer,
                   received, sent>>

\* The iterator raises ConnectionClosedError: `except ConnectionClosed`.
ReadClosed(c) ==
    /\ hstate[c] = "reading"
    /\ inbox[c] = <<>>
    /\ ~peer[c].open
    /\ ~ClosedOK(peer[c].code)
    /\ Exit(c, ExitLog("conn_closed", "read", "ConnectionClosed",
                       peer[c].code, peer[c].reason))
    /\ last' = NoLast
    /\ UNCHANGED <<message_count, respond, accepting, arrived, peer,
                   received, sent>>

\* Variant: the interrupt stops the listener and leaves the connections.
ShutdownListenerOnly ==
    /\ accepting
    /\ accepting' = FALSE
    /\ last' = NoLast
    /\ UNCHANGED <<connected_clients, message_count, respond, hstate, client_id,
                   inbox, arrived, peer, response, cur, received, sent, exitlog>>

\* Operator interrupt: main() leaves `async with websockets.serve(...)`,
\* which stops listening and closes the open connections (going away).
Shutdown ==
    /\ accepting
    /\ accepting' = FALSE
    /\ peer' = [c \in Conns |->
                  IF c \in Running /\ peer[c].open
                  THEN [open |-> FALSE, by |-> "server",
                        code |-> GoingAway.code, reason |-> GoingAway.reason]
                  ELSE peer[c]]
    /\ last' = NoLast
    /\ UNCHANGED <<connected_clients, message_count, respond, hstate, client_id,
                   inbox, arrived, response, cur, received, sent, exitlog>>

Next ==
    \/ \E c \in Conns : Connect(c)
    \/ \E c \in Conns : ClientSend(c)
    \/ \E c \in Conns, cl \in Closes : ClientClose(c, cl)
    \/ \E c \in Conns, message \in Messages : Receive(c, message)
    \/ \E c \in Conns : SendOk(c)
    \/ \E c \in Conns : SendFail(c)
    \/ \E c \in Conns : StreamEnd(c)
    \/ \E c \in Conns : ReadClosed(c)
    \/ Shutdown

Spec == Init /\ [][Next]_vars

\* The same server with clients that come back after their connection has
\* finished: more connections are accepted than are ever open at once.
NextReconnect ==
    \/ Next
    \/ \E c \in Conns : Reconnect(c)

SpecReconnect == Init /\ [][NextReconnect]_vars

\* ------------------------------------------------ the extraction by itself
\* The values a "msg" field can decode to.
MsgValues ==
    {MsgObj(has, 123, 456, 50) : has \in SUBSET {"latitude", "longitude", "altitude"}}
        \cup {MsgOther("str", {"latitude", "longitude"}),
              MsgOther("list", {"latitude", "longitude"}),
              MsgOther("num", {}),
              MsgOther("null", {})}

\* The key-value objects a text frame can decode to.
Decoded ==
    {Obj(has, op, "/gps", msg) :
        has \in SUBSET {"op", "topic", "msg"}, op \in {"publish", "call"},
        msg \in MsgValues}

\* The inner try statement applied to one decoded object, outside any
\* handler: last holds the object and what the code made of it.
Decode(data) ==
    /\ last = NoLast
    /\ last' = [NoLast EXCEPT !.message = Text(data), !.out = Classify(Text(data))]
    /\ UNCHANGED <<connected_clients, message_count, respond, accepting, hstate,
                   client_id, inbox, arrived, peer, response, cur, received, sent,
                   exitlog>>

NextExtract == \E data \in Decoded : Decode(data)

SpecExtract == Init /\ [][NextExtract]_vars

\* ----------------------------------------------------------------- claims
\* C1: every acknowledgment handle_client sends carries the number that was
\* given to its own triggering message at receipt, whatever other
\* connections received in between.
C1_AckCarriesOwnNumber ==
    \A i \in 1..Len(sent) :
        /\ sent[i].k \in 1..Len(received)
        /\ sent[i].message_id = received[sent[i].k]

\* Two acknowledgments went out in the opposite order of their messages'
\* receipt: the later message was received between the receipt of the
\* earlier one and the sending of its acknowledgment.
C1_Witness ==
    \E i, j \in 1..Len(sent) :
        /\ i < j
        /\ sent[i].ok /\ sent[j].ok
        /\ sent[i].conn # sent[j].conn
        /\ sent[i].message_id > sent[j].message_id

\* C2: after K receipts on any handlers the counter is K, and the numbers
\* given to the messages increase strictly in order of receipt.
C2_CounterCountsReceipts ==
    /\ message_count = Len(received)
    /\ \A i, j \in 1..Len(received) : i < j => received[i] < received[j]

\* Two handlers have each received a message and both are still running.
C2_Witness ==
    /\ Len(received) >= 2
    /\ \E c, d \in Running : c # d /\ cur[c] > 0 /\ cur[d] > 0

\* C3 (as claimed): no handler leaves its loop because the sending of an
\* acknowledgment failed.
C3_SendFailureKeepsReading ==
    \A c \in Conns : hstate[c] = "closed" => exitlog[c].at # "send"

\* The publish envelope: a key-value object whose "op" is "publish" and
\* whose "msg" is a key-value object with "latitude" and "longitude".
MatchesEnvelope(data) ==
    /\ data.t = "obj"
    /\ {"op", "msg"} \subseteq data.has
    /\ data.op = "publish"
    /\ data.msg.t = "obj"
    /\ {"latitude", "longitude"} \subseteq data.msg.has

\* C4 (as claimed): a payload that decodes as structured data and does not
\* match the publish envelope yields no extraction and no error, and its
\* handler stays in its loop.
C4_UnmatchedIsDisplayedOnly ==
    (last.k > 0 /\ last.message.valid /\ ~MatchesEnvelope(last.message.data))
        => /\ ~last.out.gps.extracted
           /\ last.out.exc = "none"
           /\ hstate[last.conn] \in {"reading", "sending"}

\* C5 (as claimed): a payload that is not valid structured data, text or
\* bytes, short or long, is classified as raw text, counts for exactly 1,
\* raises nothing past the loop iteration and leaves its handler in its loop.
C5_DecodeErrorRecovered ==
    (last.k > 0 /\ ~last.message.valid)
        => /\ last.out.cls = "raw"
           /\ last.id = last.before + 1
           /\ last.out.exc = "none"
           /\ hstate[last.conn] \in {"reading", "sending"}

\* The acknowledgments sent for the message received k-th.
AcksOf(k) == {i \in 1..Len(sent) : sent[i].k = k}

\* C6 (as claimed): with acknowledgments on, every message a handler has
\* finished with was acknowledged exactly once, on its own connection.
C6_ExactlyOneAck ==
    respond =>
        \A k \in 1..Len(received) :
            (\A c \in Conns : ~(hstate[c] = "sending" /\ cur[c] = k))
                => /\ Cardinality(AcksOf(k)) = 1
                   /\ \A i \in AcksOf(k) :
                        /\ (last.k = k => sent[i].conn = last.conn)
                        /\ \A c \in Conns : cur[c] = k => sent[i].conn = c

\* C7: once every accepted connection's handler has finished, by whatever
\* close path, the registry is empty.
C7_RegistryEmptyWhenAllFinished ==
    (\A c \in Conns : hstate[c] \in {"idle", "closed"}) => connected_clients = {}

\* All connections were accepted, two of them ran concurrently (their
\* acknowledgments overtook each other), and all have finished, not all by
\* the same path.
C7_Witness ==
    /\ \A c \in Conns : hstate[c] = "closed"
    /\ \E c, d \in Conns : exitlog[c].path # exitlog[d].path
    /\ \E i, j \in 1..Len(sent) :
        i < j /\ sent[i].conn # sent[j].conn /\ sent[i].message_id > sent[j].message_id

\* A step in which the handler of c ends on a fault: an exception out of
\* the handling of a message or out of the sending of an acknowledgment.
FaultStep(c) ==
    /\ hstate[c] \in {"reading", "sending"}
    /\ hstate'[c] = "closed"
    /\ exitlog'[c].at \in {"message", "send"}

\* C8: a fault in one handler closes that handler only: the listener keeps
\* accepting, and every other handler's state and registry membership are
\* as before.
C8_FaultIsLocal ==
    [][\A c \in Conns :
         FaultStep(c) =>
            /\ c \notin connected_clients'
            /\ accepting' = accepting
            /\ \A d \in Conns \ {c} :
                 /\ hstate'[d] = hstate[d]
                 /\ (d \in connected_clients') = (d \in connected_clients)]_vars

\* A handler has just ended on a fault in the handling of a message while
\* another handler is running and the listener is accepting.
C8_Witness ==
    /\ last.k > 0
    /\ last.out.exc # "none"
    /\ hstate[last.conn] = "closed"
    /\ exitlog[last.conn].at = "message"
    /\ accepting
    /\ \E d \in Running : d # last.conn /\ d \in connected_clients

\* C9 (as claimed): a handler that ends because its client closed the
\* connection with a code and a reason has printed that code and reason.
C9_CloseCodeLogged ==
    \A c \in Conns :
        (hstate[c] = "closed" /\ peer[c].by = "client" /\ exitlog[c].at = "read")
            => /\ exitlog[c].code = peer[c].code
               /\ exitlog[c].reason = peer[c].reason

\* C10: whenever control can pass from one task to another, the registry
\* holds as many connections as there are handlers running.
C10_RegistryCountsRunning ==
    Cardinality(connected_clients) = Cardinality(Running)

\* One handler has finished while the others are still running.
C10_Witness ==
    /\ \E c \in Conns : hstate[c] = "closed"
    /\ Cardinality(Running) = MaxConns - 1
    /\ Cardinality(Running) >= 1

\* A step in which the handler of c leaves its loop and returns.
ExitStep(c) ==
    /\ hstate[c] \in {"reading", "sending"}
    /\ hstate'[c] = "closed"

\* C11: whichever way a handler leaves its loop, exactly its own connection
\* leaves the registry and the registry count goes down by exactly 1.
C11_CleanupRemovesOwnConnection ==
    [][\A c \in Conns :
         ExitStep(c) =>
            /\ connected_clients' = connected_clients \ {c}
            /\ Cardinality(connected_clients') = Cardinality(connected_clients) - 1]_vars

\* A handler has left its loop on the end of the message stream while
\* another connection stays registered.
C11_Witness ==
    \E c, d \in Conns :
        /\ c # d
        /\ hstate[c] = "closed"
        /\ exitlog[c].path = "stream_end"
        /\ c \notin connected_clients
        /\ d \in connected_clients

\* A step in which the handler of c takes a message from its connection.
ReceiveStep(c) ==
    /\ Len(received') = Len(received) + 1
    /\ last'.conn = c

\* C12: a connection's messages are handled in arrival order: the handler
\* takes the frame that arrived first, gives it a larger number than it gave
\* to its previous message, and does so only when it is not suspended in the
\* sending of an acknowledgment, the previous acknowledgment being finished.
C12_ArrivalOrder ==
    [][\A c \in Conns :
         ReceiveStep(c) =>
            /\ hstate[c] = "reading"
            /\ \A i \in 1..Len(inbox[c]) : last'.arrival <= inbox[c][i]
            /\ \A i \in 1..Len(inbox'[c]) : last'.arrival < inbox'[c][i]
            /\ cur[c] > 0 => last'.id > received[cur[c]]
            /\ (respond /\ cur[c] > 0) => AcksOf(cur[c]) # {}]_vars

\* A handler has just taken the second message of its connection, after
\* the acknowledgment of the first one went out.
C12_Witness ==
    /\ respond
    /\ last.k = 2
    /\ last.arrival = 2
    /\ \E i \in 1..Len(sent) :
         sent[i].conn = last.conn /\ sent[i].k = 1 /\ sent[i].ok

\* A step in which a connection is accepted and its handler started.
AcceptStep(c) ==
    /\ hstate[c] \in {"idle", "closed"}
    /\ hstate'[c] = "reading"

\* C13: the label of an accepted connection is n + 1, n the registry size
\* at acceptance, and the connection is in the registry before anything
\* else runs: the step leaves the registry one larger and every other
\* handler where it was, so the next accept computes from a larger size.
C13_LabelFromRegistrySize ==
    [][\A c \in Conns :
         AcceptStep(c) =>
            /\ client_id'[c] = Cardinality(connected_clients) + 1
            /\ c \in connected_clients'
            /\ Cardinality(connected_clients') = Cardinality(connected_clients) + 1
            /\ \A d \in Conns \ {c} :
                 hstate'[d] = hstate[d] /\ client_id'[d] = client_id[d]]_vars

\* Two connections accepted one after the other are registered with the
\* labels Client-1 and Client-2.
C13_Witness ==
    \E c, d \in connected_clients :
        client_id[c] = 1 /\ client_id[d] = 2 /\ received = <<>> /\ arrived = 0

\* C14 (as claimed): no two registered connections carry the same label.
C14_LiveLabelsDistinct ==
    \A c, d \in connected_clients : c # d => client_id[c] # client_id[d]

\* C15 (as claimed): a decoded key-value message is treated as telemetry
\* exactly if its "op" is "publish" and its "msg" structure has "latitude"
\* and "longitude"; then latitude and longitude are the values received,
\* the topic is the "topic" received or "N/A", and an altitude comes out
\* exactly if "msg" has one.
C15_ExtractionIffEnvelope ==
    LET data == last.message.data
        gps == last.out.gps
    IN (last.message.valid /\ data.t = "obj") =>
          /\ gps.extracted <=> MatchesEnvelope(data)
          /\ gps.extracted =>
               /\ gps.latitude = data.msg.latitude
               /\ gps.longitude = data.msg.longitude
               /\ gps.topic = (IF "topic" \in data.has THEN data.topic ELSE "N/A")
               /\ gps.has_altitude <=> "altitude" \in data.msg.has
               /\ gps.has_altitude => gps.altitude = data.msg.altitude

\* C16: with acknowledgments off no handler sends anything, whatever the
\* clients do: no send is ever started or finished.
C16_NoSendWithoutRespond ==
    ~respond => (sent = <<>> /\ \A c \in Conns : hstate[c] # "sending")

\* With acknowledgments off, messages were received on two connections and
\* a handler has finished.
C16_Witness ==
    /\ ~respond
    /\ Len(received) >= 2
    /\ \E c, d \in Conns : c # d /\ hstate[c] = "closed" /\ cur[d] > 0

ShutdownStep == accepting /\ ~accepting'

C19_RemovalNeverFails ==
    [][\A c \in Conns :
         /\ ExitStep(c) => c \in connected_clients
         /\ (c \in connected_clients /\ c \notin connected_clients') => ExitStep(c)]_vars

\* A handler has returned through `except ConnectionClosed` and its
\* connection is gone, while another handler is running and registered.
C19_Witness ==
    \E c, d \in Conns :
        /\ hstate[c] = "closed"
        /\ exitlog[c].path = "conn_closed"
        /\ c \notin connected_clients
        /\ d \in Running
        /\ d \in connected_clients

====
